---- MODULE Spec2Model ----
(***************************************************************************)
(* A model of otp_bot.py: a Telegram bot that keeps named TOTP secrets in  *)
(* one SQLite table and answers five commands.                             *)
(*                                                                         *)
(* The handlers are asyncio coroutines sharing one connection and one      *)
(* cursor.  A handler runs without interruption from its first statement   *)
(* to its first await (the asyncio.sleep of send_with_delay), so at most   *)
(* one handler is between dispatch and that await at any time; any number  *)
(* may be asleep inside send_with_delay.  The process may be killed at any *)
(* point, after which only the committed table (disk) survives.            *)
(*                                                                         *)
(* Strings are sequences of one-character strings.                         *)
(***************************************************************************)
EXTENDS Integers, Sequences, FiniteSets, TLC

VARIABLES
    disk,       \* otp_secrets as committed to otp_bot.db: a set of rows
    db,         \* otp_secrets as seen through conn (uncommitted changes included)
    rowcount,   \* cursor.rowcount of the shared cursor
    now,        \* the wall clock, in whole seconds
    running,    \* the handler that holds the event loop, or NoHandler
    call,       \* the running handler's command and context.args, or NoCall
    pc,         \* per handler: idle, run, commit, sleep, raised
    text,       \* per handler: the response it is about to send, or the exception
    wake        \* per handler: the time its asyncio.sleep ends

vars == <<disk, db, rowcount, now, running, call, pc, text, wake>>

----------------------------------------------------------------------------
(* Bounds of the model *)

NumNames == 3
NumKeys == 5
MaxTicks == 2

(* Program constants *)

REQUEST_DELAY == 1
TimeStep == 30

Handlers == {1, 2}
NoHandler == 0

StartTime == TimeStep - 1
MaxTime == StartTime + MaxTicks

----------------------------------------------------------------------------
(* What users type, and strings *)

\* The names and keys a user types, in the order the bounds take them up:
\* two spellings of one name and another name; keys that are valid and
\* decodable, valid but no whole Base32 quantum, padded, of a foreign
\* character, padded in front.
NameList ==
    << <<"a">>, <<"A">>, <<"b">>, <<"B">>, <<"a", "B">> >>
KeyList ==
    << <<"a", "a">>, <<"a">>, <<"a", "=">>, <<"1">>, <<"=", "a">>,
       <<"a", "a", "a", "a">>, <<"A", "2", "=">> >>

NameTokens == {NameList[i] : i \in 1..NumNames}
KeyTokens == {KeyList[i] : i \in 1..NumKeys}

UpperCase == <<"A","B","C","D","E","F","G","H","I","J","K","L","M",
               "N","O","P","Q","R","S","T","U","V","W","X","Y","Z">>
LowerCase == <<"a","b","c","d","e","f","g","h","i","j","k","l","m",
               "n","o","p","q","r","s","t","u","v","w","x","y","z">>

LowerChar(c) ==
    IF \E i \in 1..26 : UpperCase[i] = c
    THEN LowerCase[CHOOSE i \in 1..26 : UpperCase[i] = c]
    ELSE c

UpperChar(c) ==
    IF \E i \in 1..26 : LowerCase[i] = c
    THEN UpperCase[CHOOSE i \in 1..26 : LowerCase[i] = c]
    ELSE c

Lower(s) == [i \in 1..Len(s) |-> LowerChar(s[i])]
Upper(s) == [i \in 1..Len(s) |-> UpperChar(s[i])]

----------------------------------------------------------------------------
(* Base32 *)

Base32Chars == {UpperCase[i] : i \in 1..26} \cup {"2","3","4","5","6","7"}

\* A pattern that lets '=' stand anywhere: [A-Z2-7=]+
is_valid_base32_pad_anywhere(secret_key) ==
    /\ Len(secret_key) > 0
    /\ \A i \in 1..Len(secret_key) : secret_key[i] \in Base32Chars \cup {"="}

\* The check reduced to "something was typed".
is_valid_base32_nonempty(secret_key) == Len(secret_key) > 0

\* The '$' of the pattern matches at the end of the string and also just
\* before a newline that is the string's last character.
BeforeFinalNewline(s) ==
    IF Len(s) > 0 /\ s[Len(s)] = "\n" THEN SubSeq(s, 1, Len(s) - 1) ELSE s

\* BASE32_REGEX.match: one or more Base32 characters, then any number of '='.
is_valid_base32(secret_key) ==
    LET s == BeforeFinalNewline(secret_key)
    IN  \E k \in 1..Len(s) :
            /\ \A i \in 1..k : s[i] \in Base32Chars
            /\ \A i \in (k + 1)..Len(s) : s[i] = "="

\* pyotp's byte_secret pads the secret with '=' to a multiple of 8 characters.
PaddedLen(s) ==
    IF Len(s) % 8 = 0 THEN Len(s) ELSE Len(s) + (8 - (Len(s) % 8))

\* base64.b32decode strips the trailing '=' and counts them.
RECURSIVE RStripPad(_)
RStripPad(s) ==
    IF Len(s) > 0 /\ s[Len(s)] = "=" THEN RStripPad(SubSeq(s, 1, Len(s) - 1))
    ELSE s

PadChars(s) == PaddedLen(s) - Len(RStripPad(s))

\* b32decode(casefold=True) succeeds when every remaining character is a
\* Base32 digit and the count of pad characters is one a quantum can have.
DecodeOk(s) ==
    /\ \A i \in 1..Len(RStripPad(s)) : UpperChar(RStripPad(s)[i]) \in Base32Chars
    /\ PadChars(s) \in {0, 1, 3, 4, 6}

\* The decoded key, kept as its Base32 digits; its length in bytes.
DecodedKey(s) == Upper(RStripPad(s))
DecodedLen(s) == (5 * Len(RStripPad(s))) \div 8

\* A code that changes with every second.
TotpCode_by_second(secret, t) == <<DecodedKey(secret), t>>

\* totp.now(): the code is a function of the key and the time counter only.
TotpCode(secret, t) == <<DecodedKey(secret), t \div TimeStep>>

----------------------------------------------------------------------------
(* The table otp_secrets (name TEXT PRIMARY KEY, secret_key TEXT NOT NULL) *)

Row(name, secret_key) == [name |-> name, secret_key |-> secret_key]

\* SELECT ... WHERE name = ?  (TEXT compares byte for byte)
RowsNamed(table, name) == {r \in table : r.name = name}

\* fetchone() in the place of fetchall(): the first row only.
NamesOf_first(table) ==
    IF table = {} THEN <<>>
    ELSE <<(CHOOSE x \in table : TRUE).name>>

\* SELECT name FROM otp_secrets, as the sequence fetchall() returns
RECURSIVE NamesOf(_)
NamesOf(table) ==
    IF table = {} THEN <<>>
    ELSE LET r == CHOOSE x \in table : TRUE
         IN  <<r.name>> \o NamesOf(table \ {r})

----------------------------------------------------------------------------
(* Commands and responses *)

Commands == {"start", "getotp", "addcode", "deletecode", "listcodes"}

\* context.args of an incoming command
ArgLists(cmd) ==
    CASE cmd \in {"start", "listcodes"} -> {<<>>}
      [] cmd \in {"getotp", "deletecode"} -> {<<>>} \cup {<<n>> : n \in NameTokens}
      [] cmd = "addcode" ->
            {<<>>} \cup {<<n>> : n \in NameTokens}
                   \cup {<<n, k>> : n \in NameTokens, k \in KeyTokens}

NoCall == [cmd |-> "none", args |-> <<>>]
NoText == [kind |-> "none", name |-> <<>>, body |-> <<>>]

Text(kind, name, body) == [kind |-> kind, name |-> name, body |-> body]

----------------------------------------------------------------------------
(* The state after the module has been imported and main() has started *)

Init ==
    /\ disk \in {{}, {Row(Lower(NameList[1]), Upper(KeyList[1]))}}
    /\ db = disk
    /\ rowcount = -1
    /\ now = StartTime
    /\ running = NoHandler
    /\ call = NoCall
    /\ pc = [h \in Handlers |-> "idle"]
    /\ text = [h \in Handlers |-> NoText]
    /\ wake = [h \in Handlers |-> 0]

\* The name taken as typed.
getotp_name_as_typed(args) == args[1]
addcode_name_as_typed(args) == args[1]

\* A table without its key: every INSERT goes through.
IntegrityError_never(table, name) == FALSE

\* name = context.args[0].lower(), in each handler that takes a name
getotp_name(args) == Lower(args[1])
addcode_name(args) == Lower(args[1])
deletecode_name(args) == Lower(args[1])

\* secret_key = context.args[1].upper()
addcode_secret_key(args) == Upper(args[2])

\* The PRIMARY KEY on name refuses an INSERT of a name the table holds.
IntegrityError(table, name) == RowsNamed(table, name) # {}

\* INSERT INTO otp_secrets (name, secret_key) VALUES (?, ?)
Insert(table, name, secret_key) == table \cup {Row(name, secret_key)}

\* A DELETE without its WHERE clause.
DeleteRows_all(table, name) == {}

\* DELETE FROM otp_secrets WHERE name = ?
DeleteRows(table, name) == table \ RowsNamed(table, name)

\* A commit that does not reach the file.
Committed_lost(view, file) == file

\* conn.commit(): the file takes the connection's view of the table.
Committed(view, file) == view

\* The test on cursor.rowcount turned round.
NothingDeleted_inverted(rc) == rc # 0

\* if cursor.rowcount == 0
NothingDeleted(rc) == rc = 0

\* The application hands an update to its handler coroutine.  The event loop
\* is free, and the update takes the first free slot (slots are alike).
Dispatch(h, cmd, args) ==
    /\ running = NoHandler
    /\ pc[h] = "idle"
    /\ \A g \in Handlers : pc[g] = "idle" => h <= g
    /\ running' = h
    /\ call' = [cmd |-> cmd, args |-> args]
    /\ pc' = [pc EXCEPT ![h] = "run"]
    /\ UNCHANGED <<disk, db, rowcount, now, text, wake>>

\* A send_with_delay without its asyncio.sleep.
SendWithDelay_no_sleep(h, t) ==
    /\ pc' = [pc EXCEPT ![h] = "sleep"]
    /\ text' = [text EXCEPT ![h] = t]
    /\ wake' = [wake EXCEPT ![h] = now]
    /\ running' = NoHandler
    /\ call' = NoCall

\* send_with_delay up to its asyncio.sleep: the handler gives up the loop.
SendWithDelay(h, t) ==
    /\ pc' = [pc EXCEPT ![h] = "sleep"]
    /\ text' = [text EXCEPT ![h] = t]
    /\ wake' = [wake EXCEPT ![h] = now + REQUEST_DELAY]
    /\ running' = NoHandler
    /\ call' = NoCall

\* An exception leaves the handler.
Raise(h, exc) ==
    /\ pc' = [pc EXCEPT ![h] = "raised"]
    /\ text' = [text EXCEPT ![h] = Text(exc, <<>>, <<>>)]
    /\ running' = NoHandler
    /\ call' = NoCall
    /\ UNCHANGED wake

\* The handler goes on to its conn.commit(), still holding the loop.
ToCommit(h) ==
    /\ pc' = [pc EXCEPT ![h] = "commit"]
    /\ UNCHANGED <<running, call, text, wake>>

Running(h, cmd) ==
    /\ running = h
    /\ pc[h] = "run"
    /\ call.cmd = cmd

\* A getotp that uses the record up: the code is given out once.
getotp_consuming(h) ==
    /\ Running(h, "getotp")
    /\ IF call.args = <<>>
       THEN /\ SendWithDelay(h, Text("usage_getotp", <<>>, <<>>))
            /\ UNCHANGED <<disk, db, rowcount>>
       ELSE LET name == getotp_name(call.args)
                result == RowsNamed(db, name)
            IN  /\ rowcount' = Cardinality(result)
                /\ db' = DeleteRows(db, name)
                /\ disk' = DeleteRows(db, name)
                /\ IF result = {}
                   THEN SendWithDelay(h, Text("not_found", name, <<>>))
                   ELSE LET secret == (CHOOSE r \in result : TRUE).secret_key
                        IN  IF DecodeOk(secret)
                            THEN SendWithDelay(h,
                                    Text("otp", name, TotpCode(secret, now)))
                            ELSE Raise(h, "binascii.Error")
    /\ UNCHANGED now

\* An addcode whose test of the arguments reads "< 1": one argument gets
\* past it and context.args[1] raises IndexError.
addcode_one_arg_passes(h) ==
    /\ Running(h, "addcode")
    /\ IF Len(call.args) < 1
       THEN /\ SendWithDelay(h, Text("usage_addcode", <<>>, <<>>))
            /\ UNCHANGED <<db, rowcount>>
       ELSE IF Len(call.args) < 2
       THEN /\ Raise(h, "IndexError")
            /\ UNCHANGED <<db, rowcount>>
       ELSE LET name == addcode_name(call.args)
                secret_key == addcode_secret_key(call.args)
            IN  IF ~is_valid_base32(secret_key)
                THEN /\ SendWithDelay(h, Text("invalid", <<>>, <<>>))
                     /\ UNCHANGED <<db, rowcount>>
                ELSE IF IntegrityError(db, name)
                THEN /\ SendWithDelay(h, Text("exists", name, <<>>))
                     /\ rowcount' = -1
                     /\ UNCHANGED db
                ELSE /\ db' = Insert(db, name, secret_key)
                     /\ rowcount' = 1
                     /\ ToCommit(h)
    /\ UNCHANGED <<disk, now>>

start(h) ==
    /\ Running(h, "start")
    /\ SendWithDelay(h, Text("help", <<>>, <<>>))
    /\ UNCHANGED <<disk, db, rowcount, now>>

getotp(h) ==
    /\ Running(h, "getotp")
    /\ IF call.args = <<>>
       THEN /\ SendWithDelay(h, Text("usage_getotp", <<>>, <<>>))
            /\ UNCHANGED rowcount
       ELSE LET name == getotp_name(call.args)
                result == RowsNamed(db, name)
            IN  /\ rowcount' = -1
                /\ IF result = {}
                   THEN SendWithDelay(h, Text("not_found", name, <<>>))
                   ELSE LET secret == (CHOOSE r \in result : TRUE).secret_key
                        IN  IF DecodeOk(secret)
                            THEN SendWithDelay(h,
                                    Text("otp", name, TotpCode(secret, now)))
                            ELSE Raise(h, "binascii.Error")
    /\ UNCHANGED <<disk, db, now>>

\* addcode up to its INSERT
addcode(h) ==
    /\ Running(h, "addcode")
    /\ IF Len(call.args) < 2
       THEN /\ SendWithDelay(h, Text("usage_addcode", <<>>, <<>>))
            /\ UNCHANGED <<db, rowcount>>
       ELSE LET name == addcode_name(call.args)
                secret_key == addcode_secret_key(call.args)
            IN  IF ~is_valid_base32(secret_key)
                THEN /\ SendWithDelay(h, Text("invalid", <<>>, <<>>))
                     /\ UNCHANGED <<db, rowcount>>
                ELSE IF IntegrityError(db, name)
                THEN /\ SendWithDelay(h, Text("exists", name, <<>>))
                     /\ rowcount' = -1
                     /\ UNCHANGED db
                ELSE /\ db' = Insert(db, name, secret_key)
                     /\ rowcount' = 1
                     /\ ToCommit(h)
    /\ UNCHANGED <<disk, now>>

\* conn.commit() of addcode, then its success message
addcode_commit(h) ==
    /\ running = h /\ pc[h] = "commit" /\ call.cmd = "addcode"
    /\ disk' = Committed(db, disk)
    /\ SendWithDelay(h, Text("added", addcode_name(call.args), <<>>))
    /\ UNCHANGED <<db, rowcount, now>>

\* deletecode up to its DELETE
deletecode(h) ==
    /\ Running(h, "deletecode")
    /\ IF call.args = <<>>
       THEN /\ SendWithDelay(h, Text("usage_deletecode", <<>>, <<>>))
            /\ UNCHANGED <<db, rowcount>>
       ELSE LET name == deletecode_name(call.args)
            IN  /\ db' = DeleteRows(db, name)
                /\ rowcount' = Cardinality(RowsNamed(db, name))
                /\ ToCommit(h)
    /\ UNCHANGED <<disk, now>>

\* conn.commit() of deletecode, then the message cursor.rowcount selects
deletecode_commit(h) ==
    /\ running = h /\ pc[h] = "commit" /\ call.cmd = "deletecode"
    /\ disk' = Committed(db, disk)
    /\ LET name == deletecode_name(call.args)
       IN  IF NothingDeleted(rowcount)
           THEN SendWithDelay(h, Text("not_found", name, <<>>))
           ELSE SendWithDelay(h, Text("deleted", name, <<>>))
    /\ UNCHANGED <<db, rowcount, now>>

listcodes(h) ==
    /\ Running(h, "listcodes")
    /\ rowcount' = -1
    /\ LET results == NamesOf(db)
       IN  IF results = <<>>
           THEN SendWithDelay(h, Text("none_stored", <<>>, <<>>))
           ELSE SendWithDelay(h, Text("list", <<>>, results))
    /\ UNCHANGED <<disk, db, now>>

\* send_with_delay after its sleep: update.message.reply_text(text)
reply_text(h) ==
    /\ pc[h] = "sleep"
    /\ running = NoHandler
    /\ now >= wake[h]
    /\ pc' = [pc EXCEPT ![h] = "idle"]
    /\ text' = [text EXCEPT ![h] = NoText]
    /\ wake' = [wake EXCEPT ![h] = 0]
    /\ UNCHANGED <<disk, db, rowcount, now, running, call>>

\* The application's error path: the exception is logged, nothing is sent.
handler_error(h) ==
    /\ pc[h] = "raised"
    /\ running = NoHandler
    /\ pc' = [pc EXCEPT ![h] = "idle"]
    /\ text' = [text EXCEPT ![h] = NoText]
    /\ UNCHANGED <<disk, db, rowcount, now, running, call, wake>>

Tick ==
    /\ now < MaxTime
    /\ now' = now + 1
    /\ UNCHANGED <<disk, db, rowcount, running, call, pc, text, wake>>

\* The process is killed and started again: the open transaction is lost.
Crash ==
    /\ db' = disk
    /\ rowcount' = -1
    /\ running' = NoHandler
    /\ call' = NoCall
    /\ pc' = [h \in Handlers |-> "idle"]
    /\ text' = [h \in Handlers |-> NoText]
    /\ wake' = [h \in Handlers |-> 0]
    /\ UNCHANGED <<disk, now>>

Next ==
    \/ \E h \in Handlers, cmd \in Commands : \E args \in ArgLists(cmd) :
            Dispatch(h, cmd, args)
    \/ \E h \in Handlers : start(h)
    \/ \E h \in Handlers : getotp(h)
    \/ \E h \in Handlers : addcode(h)
    \/ \E h \in Handlers : addcode_commit(h)
    \/ \E h \in Handlers : deletecode(h)
    \/ \E h \in Handlers : deletecode_commit(h)
    \/ \E h \in Handlers : listcodes(h)
    \/ \E h \in Handlers : reply_text(h)
    \/ \E h \in Handlers : handler_error(h)
    \/ Tick
    \/ Crash

Spec == Init /\ [][Next]_vars

\* Two updates, both /addcode, arrive at a bot whose table is empty; each
\* handler runs up to its asyncio.sleep.
InitTwoAdds == Init /\ disk = {}

NextTwoAdds ==
    \/ \E h \in Handlers : \E args \in ArgLists("addcode") :
            Dispatch(h, "addcode", args)
    \/ \E h \in Handlers : addcode(h)
    \/ \E h \in Handlers : addcode_commit(h)
    \/ Tick

SpecTwoAdds == InitTwoAdds /\ [][NextTwoAdds]_vars

\* Two updates, both /deletecode, arrive at a bot whose table holds two
\* rows; each handler runs up to its asyncio.sleep.
RowsTwoDeletes ==
    {Row(Lower(NameList[1]), Upper(KeyList[1])),
     Row(Lower(NameList[3]), Upper(KeyList[2]))}

InitTwoDeletes ==
    /\ disk = RowsTwoDeletes
    /\ db = disk
    /\ rowcount = -1
    /\ now = StartTime
    /\ running = NoHandler
    /\ call = NoCall
    /\ pc = [h \in Handlers |-> "idle"]
    /\ text = [h \in Handlers |-> NoText]
    /\ wake = [h \in Handlers |-> 0]

NextTwoDeletes ==
    \/ \E h \in Handlers : \E args \in ArgLists("deletecode") :
            Dispatch(h, "deletecode", args)
    \/ \E h \in Handlers : deletecode(h)
    \/ \E h \in Handlers : deletecode_commit(h)
    \/ Tick

SpecTwoDeletes == InitTwoDeletes /\ [][NextTwoDeletes]_vars

\* The running handler's next statement is a cursor.execute.
AtExecute(h) ==
    /\ running = h /\ pc[h] = "run"
    /\ \/ call.cmd = "listcodes"
       \/ call.cmd \in {"getotp", "deletecode"} /\ call.args # <<>>
       \/ /\ call.cmd = "addcode" /\ Len(call.args) >= 2
          /\ is_valid_base32(addcode_secret_key(call.args))

\* The running handler's next statement is conn.commit().
AtCommit(h) == running = h /\ pc[h] = "commit"

\* cursor.execute or conn.commit fails with an error of the storage (the disk
\* is full, the file is locked, an I/O error): sqlite3.OperationalError, which
\* no handler catches.  A failed commit leaves the transaction open, or SQLite
\* has rolled it back.
storage_error(h) ==
    /\ \/ AtExecute(h) /\ UNCHANGED db
       \/ AtCommit(h) /\ db' \in {db, disk}
    /\ Raise(h, "sqlite3.OperationalError")
    /\ UNCHANGED <<disk, rowcount, now>>

\* The application's default: the next update is taken up only when the
\* handler of the one before has returned.
DispatchInTurn(h, cmd, args) ==
    /\ \A g \in Handlers : pc[g] = "idle"
    /\ Dispatch(h, cmd, args)

\* One update at a time, on a storage that may fail.
NextStorage ==
    \/ \E h \in Handlers, cmd \in Commands : \E args \in ArgLists(cmd) :
            DispatchInTurn(h, cmd, args)
    \/ \E h \in Handlers : start(h)
    \/ \E h \in Handlers : getotp(h)
    \/ \E h \in Handlers : addcode(h)
    \/ \E h \in Handlers : addcode_commit(h)
    \/ \E h \in Handlers : deletecode(h)
    \/ \E h \in Handlers : deletecode_commit(h)
    \/ \E h \in Handlers : listcodes(h)
    \/ \E h \in Handlers : reply_text(h)
    \/ \E h \in Handlers : handler_error(h)
    \/ \E h \in Handlers : storage_error(h)
    \/ Tick
    \/ Crash

SpecStorage == Init /\ [][NextStorage]_vars

\* is_valid_base32 on its own: the strings it may be given, and one call.
MaxSecretLen == 3

Alphabet == {"A", "Z", "2", "7", "a", "0", "1", "8", "9", "=", "\n"}

Strings(n) == UNION {[1..k -> Alphabet] : k \in 0..n}

InitBase32 ==
    /\ disk = {} /\ db = {}
    /\ rowcount = -1
    /\ now = StartTime
    /\ running \in Handlers
    /\ \E s \in Strings(MaxSecretLen) :
            call = [cmd |-> "is_valid_base32", args |-> <<s>>]
    /\ pc = [h \in Handlers |-> IF h = running THEN "run" ELSE "idle"]
    /\ text = [h \in Handlers |-> NoText]
    /\ wake = [h \in Handlers |-> 0]

\* return bool(BASE32_REGEX.match(secret_key)): the result is kept as the
\* caller's text, next to the string it was computed from.
match(h) ==
    /\ Running(h, "is_valid_base32")
    /\ pc' = [pc EXCEPT ![h] = "idle"]
    /\ text' = [text EXCEPT ![h] =
            Text(IF is_valid_base32(call.args[1]) THEN "True" ELSE "False",
                 <<>>, call.args[1])]
    /\ running' = NoHandler
    /\ call' = NoCall
    /\ UNCHANGED <<disk, db, rowcount, now, wake>>

NextBase32 == \E h \in Handlers : match(h)

SpecBase32 == InitBase32 /\ [][NextBase32]_vars

----------------------------------------------------------------------------
(* Properties *)

NormalNames == {Lower(n) : n \in NameTokens}
Tables == {db, disk}

\* Handler h is about to run the body of cmd on call.args.
Begins(h, cmd) == running = h /\ pc[h] = "run" /\ call.cmd = cmd

\* This step is handler h's own (not the clock's, not the end of the process).
Steps(h) == pc'[h] \notin {pc[h], "idle"}

HasRow(table, name) == \E r \in table : r.name = name

\* The charset predicate of the data model: characters of A-Z and 2-7, then
\* only '=' characters.
CharsetPredicate(s) ==
    /\ \A i \in 1..Len(s) : s[i] \in Base32Chars \cup {"="}
    /\ \A i \in 1..Len(s) : \A j \in 1..Len(s) :
            (i < j /\ s[i] = "=") => s[j] = "="

\* The pattern ^[A-Z2-7]+=*$ read from left to right: data, then padding.
RECURSIVE ScanPad(_, _)
ScanPad(s, i) ==
    IF i > Len(s) THEN TRUE
    ELSE s[i] = "=" /\ ScanPad(s, i + 1)

RECURSIVE ScanData(_, _)
ScanData(s, i) ==
    IF i > Len(s) THEN i > 1
    ELSE IF s[i] \in Base32Chars THEN ScanData(s, i + 1)
    ELSE i > 1 /\ ScanPad(s, i)

PassesValidation(s) == ScanData(s, 1)

OneRecordPerName(table) ==
    /\ \A r \in table : r.name = Lower(r.name)
    /\ \A r1 \in table : \A r2 \in table :
            Lower(r1.name) = Lower(r2.name) => r1 = r2

\* C1: in every reachable state the table, as committed and as the connection
\* sees it, holds only lowercase names and no two rows whose names are equal
\* after lowercasing.
C1_OneRecordPerNormalizedName ==
    \A table \in Tables : OneRecordPerName(table)

\* C1's case: an addcode typed with an uppercase name has inserted its row
\* next to a row of another name.
C1_Witness ==
    \E h \in Handlers :
        /\ pc[h] = "commit" /\ call.cmd = "addcode"
        /\ call.args[1] # Lower(call.args[1])
        /\ HasRow(db, Lower(call.args[1]))
        /\ Cardinality(db) >= 2

\* C2: in every reachable state every stored secret_key consists of
\* characters of A-Z and 2-7 followed only by '=' characters, and matches the
\* pattern of the validation.
C2_StoredSecretsSatisfyCharset ==
    \A table \in Tables : \A r \in table :
        CharsetPredicate(r.secret_key) /\ PassesValidation(r.secret_key)

\* C2's case: an addcode typed with a lowercase, padded key has inserted it.
C2_Witness ==
    \E h \in Handlers :
        /\ pc[h] = "commit" /\ call.cmd = "addcode"
        /\ call.args[2] # Upper(call.args[2])
        /\ \E i \in 1..Len(call.args[2]) : call.args[2][i] = "="
        /\ Row(Lower(call.args[1]), Upper(call.args[2])) \in db

\* C3: an addcode with a valid key for a name whose row exists answers
\* already-exists and changes neither table: the one row of that name keeps
\* its secret.
C3_DuplicateAddRefused ==
    [][\A h \in Handlers :
          (/\ Begins(h, "addcode") /\ Steps(h)
           /\ Len(call.args) = 2
           /\ PassesValidation(Upper(call.args[2]))
           /\ HasRow(db, Lower(call.args[1])))
          => /\ text'[h] = Text("exists", Lower(call.args[1]), <<>>)
             /\ pc'[h] = "sleep"
             /\ db' = db /\ disk' = disk
             /\ Cardinality({r \in db' : r.name = Lower(call.args[1])}) = 1]_vars

\* C3's case: a handler is about to answer already-exists for a name whose
\* row holds a secret.
C3_Witness ==
    \E h \in Handlers :
        /\ pc[h] = "sleep" /\ text[h].kind = "exists"
        /\ \E r \in db : r.name = text[h].name /\ r \in disk

\* C4: an addcode whose uppercased key fails the validation answers
\* invalid-format and changes neither table; and a getotp for a name that has
\* no row answers not-found.
C4_InvalidKeyNoWrite ==
    [][\A h \in Handlers :
        /\ (/\ Begins(h, "addcode") /\ Steps(h)
            /\ Len(call.args) = 2
            /\ ~PassesValidation(Upper(call.args[2])))
           => /\ text'[h] = Text("invalid", <<>>, <<>>)
              /\ pc'[h] = "sleep"
              /\ db' = db /\ disk' = disk
        /\ (/\ Begins(h, "getotp") /\ Steps(h)
            /\ Len(call.args) = 1
            /\ ~HasRow(db, Lower(call.args[1])))
           => /\ text'[h] = Text("not_found", Lower(call.args[1]), <<>>)
              /\ pc'[h] = "sleep"]_vars

\* C4's case: a handler is about to answer invalid-format while a name has
\* no row.
C4_Witness ==
    \E h \in Handlers :
        /\ pc[h] = "sleep" /\ text[h].kind = "invalid"
        /\ \E n \in NormalNames : ~HasRow(db, n)

\* The running handler is at the conn.commit() of cmd.
Commits(h, cmd) == running = h /\ pc[h] = "commit" /\ call.cmd = cmd

\* C5: a deletecode for a name without a row answers not-found and changes
\* neither table.  A deletecode that answers success leaves no row of the name
\* in either table; from then on a row of the name enters the committed table
\* only by the commit of an addcode for that name that answers success, and
\* until then every getotp for the name answers not-found.
C5_DeleteThenNotFound ==
    [][\A h \in Handlers :
        /\ (/\ Begins(h, "deletecode") /\ Steps(h)
            /\ Len(call.args) = 1
            /\ ~HasRow(db, Lower(call.args[1])))
           => /\ pc'[h] = "commit" /\ rowcount' = 0
              /\ db' = db /\ disk' = disk
        /\ (/\ Commits(h, "deletecode") /\ Steps(h)
            /\ ~HasRow(disk, Lower(call.args[1])))
           => /\ text'[h] = Text("not_found", Lower(call.args[1]), <<>>)
              /\ db' = db /\ disk' = disk
        /\ (/\ Commits(h, "deletecode") /\ Steps(h)
            /\ text'[h].kind = "deleted")
           => /\ text'[h].name = Lower(call.args[1])
              /\ ~HasRow(db', Lower(call.args[1]))
              /\ ~HasRow(disk', Lower(call.args[1]))
        /\ (/\ Begins(h, "getotp") /\ Steps(h)
            /\ Len(call.args) = 1
            /\ ~HasRow(disk, Lower(call.args[1])))
           => text'[h] = Text("not_found", Lower(call.args[1]), <<>>)
        /\ \A n \in NormalNames :
            (~HasRow(disk, n) /\ HasRow(disk', n))
            => \E g \in Handlers :
                 /\ Commits(g, "addcode") /\ Lower(call.args[1]) = n
                 /\ text'[g] = Text("added", n, <<>>)]_vars

\* C5's case: a getotp is about to run for a name, typed in uppercase, whose
\* deletion another handler is still reporting.
C5_Witness ==
    \E h \in Handlers : \E g \in Handlers :
        /\ pc[g] = "sleep" /\ text[g].kind = "deleted"
        /\ Begins(h, "getotp") /\ Len(call.args) = 1
        /\ call.args[1] # Lower(call.args[1])
        /\ Lower(call.args[1]) = text[g].name
        /\ ~HasRow(db, text[g].name)

\* C6: the commit of an addcode answers success and leaves, in both tables,
\* exactly one row of the lowercased name, holding the uppercased key; a
\* getotp for any spelling of a name whose lowercase form has a row does not
\* answer not-found; and a row leaves the committed table only by the commit
\* of a deletecode for its name.
C6_AddThenFound ==
    [][\A h \in Handlers :
        /\ (Commits(h, "addcode") /\ Steps(h))
           => /\ text'[h] = Text("added", Lower(call.args[1]), <<>>)
              /\ \A table \in {db', disk'} :
                    {r \in table : r.name = Lower(call.args[1])}
                        = {Row(Lower(call.args[1]), Upper(call.args[2]))}
        /\ (/\ Begins(h, "getotp") /\ Steps(h)
            /\ Len(call.args) = 1
            /\ HasRow(db, Lower(call.args[1])))
           => text'[h].kind # "not_found"
        /\ \A r \in disk :
            r \notin disk'
            => \E g \in Handlers :
                 Commits(g, "deletecode") /\ Lower(call.args[1]) = r.name]_vars

\* C6's case: a getotp is about to run for a name, typed in uppercase, whose
\* addition another handler is still reporting.
C6_Witness ==
    \E h \in Handlers : \E g \in Handlers :
        /\ pc[g] = "sleep" /\ text[g].kind = "added"
        /\ Begins(h, "getotp") /\ Len(call.args) = 1
        /\ call.args[1] # Lower(call.args[1])
        /\ Lower(call.args[1]) = text[g].name
        /\ HasRow(db, text[g].name)

AddOutcomes == {"added", "exists"}

\* Both handlers have run their addcode, for the same name, up to the sleep.
BothAnswered(n) ==
    \A h \in Handlers :
        /\ pc[h] = "sleep"
        /\ text[h].kind \in AddOutcomes
        /\ text[h].name = n

\* C7: of two addcode commands with valid keys for the same normalized name,
\* run in any interleaving on a table without that name, exactly one answers
\* success and the other already-exists; the table then holds exactly one row
\* of the name, committed, and its secret is the key of the command that
\* answered success (the row a commit wrote is never changed afterwards).
C7_ConcurrentAddsOneWins ==
    /\ [](\A n \in NormalNames :
            BothAnswered(n)
            => /\ Cardinality({h \in Handlers : text[h].kind = "added"}) = 1
               /\ Cardinality({h \in Handlers : text[h].kind = "exists"}) = 1
               /\ Cardinality({r \in db : r.name = n}) = 1
               /\ db = disk)
    /\ [][/\ \A h \in Handlers :
             (Commits(h, "addcode") /\ Steps(h))
             => /\ text'[h].kind = "added"
                /\ {r \in disk' : r.name = Lower(call.args[1])}
                     = {Row(Lower(call.args[1]), Upper(call.args[2]))}
          /\ \A r \in disk : r \in disk']_vars

\* C7's case: both handlers have answered for the same name, the one that
\* answers success a second or more before the other.
C7_Witness ==
    \E n \in NormalNames :
        /\ BothAnswered(n)
        /\ \E h \in Handlers : text[h].kind = "added" /\ wake[h] < now + REQUEST_DELAY

\* The process was killed in this step while a handler was at work.
Killed ==
    \E h \in Handlers : pc[h] \in {"run", "commit"} /\ pc'[h] = "idle"

\* C8: the step that produces the success text of addcode (of deletecode) is
\* the commit: after it the committed table holds the added row exactly once
\* (holds no row of the deleted name).  Before its commit the insert or delete
\* is in the connection's view only, and killing the process then leaves the
\* committed table as it was before the command, which is all that is
\* recovered.
C8_CommitBeforeSuccess ==
    /\ [](\A h \in Handlers :
            /\ Commits(h, "addcode")
               => /\ ~HasRow(disk, Lower(call.args[1]))
                  /\ db = disk \cup {Row(Lower(call.args[1]), Upper(call.args[2]))}
            /\ Commits(h, "deletecode")
               => /\ db = {r \in disk : r.name # Lower(call.args[1])}
                  /\ rowcount = Cardinality({r \in disk : r.name = Lower(call.args[1])}))
    /\ [][/\ \A h \in Handlers :
             /\ (text[h].kind # "added" /\ text'[h].kind = "added")
                => /\ Commits(h, "addcode")
                   /\ Row(text'[h].name, Upper(call.args[2])) \in disk'
                   /\ Cardinality({r \in disk' : r.name = text'[h].name}) = 1
             /\ (text[h].kind # "deleted" /\ text'[h].kind = "deleted")
                => /\ Commits(h, "deletecode")
                   /\ ~HasRow(disk', text'[h].name)
          /\ Killed => (disk' = disk /\ db' = disk)]_vars

\* C8's case: a handler is about to send the success text of an addcode whose
\* row is in the committed table.
C8_Witness ==
    \E h \in Handlers :
        /\ pc[h] = "sleep" /\ text[h].kind = "added"
        /\ HasRow(disk, text[h].name)
        /\ now >= wake[h]

\* C9: a getotp on a row whose secret cannot be Base32-decoded answers with a
\* corrupt-secret text: no handler is left by the decoder's exception.
C9_CorruptSecretHandled ==
    \A h \in Handlers :
        ~(pc[h] = "raised" /\ text[h].kind = "binascii.Error")

\* C10: every command ends in one response text, also when a statement or a
\* commit fails in the storage: no handler is left by sqlite3.OperationalError.
C10_StorageErrorAnswered ==
    \A h \in Handlers :
        ~(pc[h] = "raised" /\ text[h].kind = "sqlite3.OperationalError")

\* The string with the newline that may end it taken off.
WithoutFinalNewline(s) ==
    IF Len(s) > 0 /\ s[Len(s)] = "\n" THEN SubSeq(s, 1, Len(s) - 1) ELSE s

\* is_valid_base32 has returned for handler h.
Returned(h) == pc[h] = "idle" /\ text[h].kind \in {"True", "False"}

C13_ListIsTheStore ==
    [][\A h \in Handlers :
          (Begins(h, "listcodes") /\ Steps(h))
          => /\ pc'[h] = "sleep"
             /\ db = disk
             /\ (db = {} <=> text'[h].kind = "none_stored")
             /\ db # {}
                => /\ text'[h].kind = "list"
                   /\ \A r \in db :
                        Cardinality({i \in 1..Len(text'[h].body) :
                                        text'[h].body[i] = r.name}) = 1
                   /\ \A i \in 1..Len(text'[h].body) :
                        HasRow(db, text'[h].body[i])]_vars

\* C13's case: a handler is about to send a list of two names or more.
C13_Witness ==
    \E h \in Handlers :
        /\ pc[h] = "sleep" /\ text[h].kind = "list"
        /\ Len(text[h].body) >= 2
        /\ Cardinality(db) >= 2

\* C14: every secret that addcode has accepted and stored decodes, at getotp
\* time, to a key of one byte or more: no row holds a secret whose length or
\* padding is not that of whole Base32 quanta.
C14_AcceptedSecretsDecode ==
    \A table \in Tables : \A r \in table :
        DecodeOk(r.secret_key) /\ DecodedLen(r.secret_key) > 0

ReadOnlyCommands == {"start", "getotp", "listcodes"}

\* C15: a step of start, getotp or listcodes, whatever the table and the
\* arguments and whatever its outcome, leaves the rows of the table, committed
\* and as the connection sees them, as they were.
C15_ReadersLeaveStore ==
    [][\A h \in Handlers : \A cmd \in ReadOnlyCommands :
          (Begins(h, cmd) /\ Steps(h)) => (db' = db /\ disk' = disk)]_vars

\* C15's case: one handler is about to send a code and the other a list, and
\* the row the code was computed from is in the table.
C15_Witness ==
    \E h \in Handlers : \E g \in Handlers :
        /\ pc[h] = "sleep" /\ text[h].kind = "otp"
        /\ pc[g] = "sleep" /\ text[g].kind = "list"
        /\ HasRow(disk, text[h].name)

\* C16: in every step, a name that has a row before and after has the same
\* secret before and after, in the committed table and in the connection's
\* view, and the two never hold different secrets for one name.  A row leaves
\* the committed table only by the commit of a deletecode for its name that
\* answers success, and enters it only by the commit of an addcode for its
\* name that answers success.
C16_SecretImmutable ==
    /\ [](\A r \in db : \A q \in disk :
            r.name = q.name => r.secret_key = q.secret_key)
    /\ [][/\ \A r \in db : \A q \in db' :
               r.name = q.name => r.secret_key = q.secret_key
          /\ \A r \in disk : \A q \in disk' :
               r.name = q.name => r.secret_key = q.secret_key
          /\ \A r \in disk :
               r \notin disk'
               => \E g \in Handlers :
                    /\ Commits(g, "deletecode")
                    /\ text'[g] = Text("deleted", r.name, <<>>)
          /\ \A r \in disk' :
               r \notin disk
               => \E g \in Handlers :
                    /\ Commits(g, "addcode")
                    /\ text'[g] = Text("added", r.name, <<>>)]_vars

\* C16's case: a name was deleted and then added with another secret; both
\* answers are still to be sent.
C16_Witness ==
    \E h \in Handlers : \E g \in Handlers :
        /\ pc[h] = "sleep" /\ text[h].kind = "deleted"
        /\ pc[g] = "sleep" /\ text[g].kind = "added"
        /\ text[h].name = text[g].name
        /\ wake[h] < wake[g]
        /\ \E r \in disk :
             /\ r.name = text[g].name
             /\ r.secret_key # Upper(KeyList[1])

\* C17: getotp and deletecode without arguments, and addcode with fewer than
\* two, answer with their usage text and issue no statement: both tables and
\* cursor.rowcount are as they were.
C17_UsageWithoutStoreAccess ==
    [][\A h \in Handlers :
        /\ (Begins(h, "getotp") /\ Steps(h) /\ Len(call.args) = 0)
           => /\ text'[h] = Text("usage_getotp", <<>>, <<>>)
              /\ pc'[h] = "sleep"
              /\ UNCHANGED <<db, disk, rowcount>>
        /\ (Begins(h, "deletecode") /\ Steps(h) /\ Len(call.args) = 0)
           => /\ text'[h] = Text("usage_deletecode", <<>>, <<>>)
              /\ pc'[h] = "sleep"
              /\ UNCHANGED <<db, disk, rowcount>>
        /\ (Begins(h, "addcode") /\ Steps(h) /\ Len(call.args) < 2)
           => /\ text'[h] = Text("usage_addcode", <<>>, <<>>)
              /\ pc'[h] = "sleep"
              /\ UNCHANGED <<db, disk, rowcount>>]_vars

\* C17's case: an addcode and a getotp are about to answer with their usage
\* texts while the table holds a row.
C17_Witness ==
    \E h \in Handlers : \E g \in Handlers :
        /\ pc[h] = "sleep" /\ text[h].kind = "usage_addcode"
        /\ pc[g] = "sleep" /\ text[g].kind = "usage_getotp"
        /\ db # {}

DeleteOutcomes == {"deleted", "not_found"}

\* Both handlers have run their deletecode, for the same name, up to the sleep.
BothDeleted(n) ==
    \A h \in Handlers :
        /\ pc[h] = "sleep"
        /\ text[h].kind \in DeleteOutcomes
        /\ text[h].name = n

\* C18: the DELETE of a deletecode takes exactly the rows of the lowercased
\* name out of the connection's view, and its commit, which no other handler
\* can come before, takes exactly them out of the committed table: every
\* other row stays as it was.  The command answers success exactly when the
\* name had a row at its DELETE, and not-found otherwise; so of two deletecode
\* commands for one name that has a row, run in any interleaving, exactly one
\* answers success and the other not-found.
C18_DeleteExactlyOne ==
    /\ [](/\ \A h \in Handlers : pc[h] = "commit" => running = h
          /\ \A n \in {r.name : r \in RowsTwoDeletes} :
                BothDeleted(n)
                => /\ Cardinality({h \in Handlers : text[h].kind = "deleted"}) = 1
                   /\ Cardinality({h \in Handlers : text[h].kind = "not_found"}) = 1
                   /\ ~HasRow(db, n) /\ db = disk)
    /\ [][\A h \in Handlers :
          /\ (Begins(h, "deletecode") /\ Steps(h) /\ Len(call.args) = 1)
             => /\ pc'[h] = "commit"
                /\ db' = {r \in db : r.name # Lower(call.args[1])}
                /\ disk' = disk
          /\ (Commits(h, "deletecode") /\ Steps(h))
             => /\ disk' = {r \in disk : r.name # Lower(call.args[1])}
                /\ db' = disk'
                /\ text'[h].kind \in DeleteOutcomes
                /\ text'[h].name = Lower(call.args[1])
                /\ text'[h].kind = "deleted"
                      <=> HasRow(disk, Lower(call.args[1]))]_vars

\* C18's case: both handlers have answered for the same name, one with
\* success, and the row of the other name is still there.
C18_Witness ==
    \E n \in {r.name : r \in RowsTwoDeletes} :
        /\ BothDeleted(n)
        /\ \E h \in Handlers : text[h].kind = "deleted"
        /\ Cardinality(disk) = 1

OtherRuns(h) == \E g \in Handlers \ {h} : pc[g] \in {"run", "commit"}

C20_CodeOfTheSendingWindow ==
    \A h \in Handlers :
        (pc[h] = "sleep" /\ text[h].kind = "otp" /\ ENABLED reply_text(h))
        => /\ (wake[h] - REQUEST_DELAY) \div TimeStep = now \div TimeStep
           /\ \E r \in disk :
                /\ r.name = text[h].name
                /\ DecodedKey(r.secret_key) = text[h].body[1]

====
